---- MODULE Spec2Model ----
(***************************************************************************)
(* A model of verus_installer_from_release.py: the release-asset selection *)
(* and the archive-to-installation pipeline of the Verus installer.        *)
(*                                                                         *)
(* Strings are sequences of one-character strings, so that lower(),        *)
(* startswith(), endswith(), `in` and Path.suffix are computed as Python   *)
(* computes them.  A directory tree is a function from relative paths      *)
(* (sequences of names) to file records [hdr, mode]; hdr is the sequence   *)
(* of the first bytes of the file and mode the set of owner permission     *)
(* bits among "r" and "x".                                                 *)
(***************************************************************************)
EXTENDS Integers, Sequences, FiniteSets, TLC

VARIABLES
    pc,               \* position of main (or of the driver of a function)
    args,             \* the parsed command line of main
    host,             \* [system, machine, shell]: platform.system(), platform.machine(), $SHELL
    assets,           \* release['assets']: the asset names, in order
    asset,            \* the selected asset name (<<>> while none)
    choice,           \* the answer to "Enter asset number: "
    exitStatus,       \* the exit status of the process (-1 while running)
    stages,           \* the pipeline stages entered so far, in order
    archive,          \* the tree packed in the downloaded archive
    temp_extract_dir, \* <output-dir>/temp_extract: [exists, files]
    install,          \* the install directory: [exists, files]
    install_dir,      \* str(install_dir)
    scanOrder,        \* the order in which os.walk lists sibling directories
    found,            \* the last result of find_verus_binary (<<>> is None)
    home,             \* the shell config files of the home directory
    verified,         \* what the version check of verify_installation did
    runs,             \* number of calls made by the driver of a function
    snap,             \* the observed directory: at the start, then after each call
    ok,               \* whether the last call returned normally
    message           \* the last diagnostic printed by main

vars == <<pc, args, host, assets, asset, choice, exitStatus, stages, archive,
          temp_extract_dir, install, install_dir, scanOrder, found, home,
          verified, runs, snap, ok, message>>

----------------------------------------------------------------------------
(* String literals of the source.                                          *)

S_verus == <<"v", "e", "r", "u", "s">>
S_verus_exe == <<"v", "e", "r", "u", "s", ".", "e", "x", "e">>
S_rust_verify == <<"r", "u", "s", "t", "_", "v", "e", "r", "i", "f", "y">>
S_z3 == <<"z", "3">>
S_rust_ == <<"r", "u", "s", "t", "_">>
S_exe == <<".", "e", "x", "e">>
S_bin == <<"b", "i", "n">>
S_zip == <<".", "z", "i", "p">>
S_tar_gz == <<".", "t", "a", "r", ".", "g", "z">>
S_tgz == <<".", "t", "g", "z">>
S_zsh == <<"z", "s", "h">>
S_bash == <<"b", "a", "s", "h">>
S_Windows == <<"W", "i", "n", "d", "o", "w", "s">>
S_linux == <<"l", "i", "n", "u", "x">>
S_darwin == <<"d", "a", "r", "w", "i", "n">>
S_windows == <<"w", "i", "n", "d", "o", "w", "s">>
S_x86_64 == <<"x", "8", "6", "_", "6", "4">>
S_amd64 == <<"a", "m", "d", "6", "4">>
S_arm64 == <<"a", "r", "m", "6", "4">>
S_x86_linux == <<"x", "8", "6", "-", "l", "i", "n", "u", "x">>
S_x86_macos == <<"x", "8", "6", "-", "m", "a", "c", "o", "s">>
S_arm64_macos == <<"a", "r", "m", "6", "4", "-", "m", "a", "c", "o", "s">>
S_x86_win == <<"x", "8", "6", "-", "w", "i", "n">>

(* Magic numbers tested by make_all_binaries_executable.                   *)
ELF == <<127, 69, 76, 70>>
MachO == {<<254, 237, 250, 206>>, <<254, 237, 250, 207>>,
          <<206, 250, 237, 254>>, <<207, 250, 237, 254>>}
MZ == <<77, 90>>

----------------------------------------------------------------------------
(* Python's str and pathlib operations.                                    *)

lowerMap ==
    ("A" :> "a") @@ ("B" :> "b") @@ ("C" :> "c") @@ ("D" :> "d") @@
    ("E" :> "e") @@ ("F" :> "f") @@ ("G" :> "g") @@ ("H" :> "h") @@
    ("I" :> "i") @@ ("J" :> "j") @@ ("K" :> "k") @@ ("L" :> "l") @@
    ("M" :> "m") @@ ("N" :> "n") @@ ("O" :> "o") @@ ("P" :> "p") @@
    ("Q" :> "q") @@ ("R" :> "r") @@ ("S" :> "s") @@ ("T" :> "t") @@
    ("U" :> "u") @@ ("V" :> "v") @@ ("W" :> "w") @@ ("X" :> "x") @@
    ("Y" :> "y") @@ ("Z" :> "z")

\* str.lower()
Lower(s) ==
    [i \in 1..Len(s) |-> IF s[i] \in DOMAIN lowerMap THEN lowerMap[s[i]] ELSE s[i]]

\* str.startswith(p), bytes.startswith(p)
StartsWith(s, p) == Len(p) <= Len(s) /\ SubSeq(s, 1, Len(p)) = p

\* str.endswith(p)
EndsWith(s, p) == Len(p) <= Len(s) /\ SubSeq(s, Len(s) - Len(p) + 1, Len(s)) = p

\* sub in s
Contains(s, sub) ==
    \E i \in 0..(Len(s) - Len(sub)) : SubSeq(s, i + 1, i + Len(sub)) = sub

\* PurePath.suffix: from the last dot of the name, unless that dot is the
\* first or the last character of the name
Suffix(name) ==
    LET dots == {j \in 1..Len(name) : name[j] = "."}
        last == IF dots = {} THEN 0 ELSE CHOOSE j \in dots : \A k \in dots : k <= j
    IN  IF 1 < last /\ last < Len(name) THEN SubSeq(name, last, Len(name)) ELSE <<>>

\* str(base / c1 / ... / cn)
RECURSIVE PathStr(_, _)
PathStr(base, comps) ==
    IF comps = <<>> THEN base
    ELSE PathStr(base \o <<"/">> \o Head(comps), Tail(comps))

\* PurePath.parent and PurePath.name of a relative path
Parent(p) == SubSeq(p, 1, Len(p) - 1)
Name(p) == p[Len(p)]

IsPrefix(d, p) == Len(d) <= Len(p) /\ SubSeq(p, 1, Len(d)) = d

----------------------------------------------------------------------------
(* Directory trees.                                                        *)

NoDir == [exists |-> FALSE, files |-> <<>>]
Dir(files) == [exists |-> TRUE, files |-> files]

\* the directories of a tree: the root and every proper prefix of a file path
DirsOf(files) ==
    {<<>>} \cup UNION {{SubSeq(p, 1, n) : n \in 0..(Len(p) - 1)} : p \in DOMAIN files}

\* Path.exists(): a file or a directory is there
Exists(files, p) ==
    p \in DOMAIN files \/ \E q \in DOMAIN files : IsPrefix(p, q) /\ p # q

\* position of a directory name in the listing order
Pos(order, n) == CHOOSE i \in 1..Len(order) : order[i] = n

\* os.walk is top-down: a directory comes before its subdirectories, and
\* siblings come in the listing order
WalkBefore(order, d1, d2) ==
    \/ IsPrefix(d1, d2) /\ d1 # d2
    \/ \E i \in 1..Len(d1) :
          /\ i <= Len(d2)
          /\ SubSeq(d1, 1, i - 1) = SubSeq(d2, 1, i - 1)
          /\ d1[i] # d2[i]
          /\ Pos(order, d1[i]) < Pos(order, d2[i])

----------------------------------------------------------------------------
(* find_verus_binary                                                       *)

binary_names == <<S_verus, S_verus_exe>>

\* the directories whose `files` list of os.walk holds the name
WalkHits(files, name) == {d \in DirsOf(files) : (d \o <<name>>) \in DOMAIN files}

\* one round of the loop over binary_names: the root of the extract
\* directory first, then the first directory of the walk that has the name;
\* <<>> when the round returns nothing
SearchName(files, order, name) ==
    IF Exists(files, <<name>>) THEN <<name>>
    ELSE LET H == WalkHits(files, name)
         IN  IF H = {} THEN <<>>
             ELSE (CHOOSE d \in H : \A e \in H \ {d} : WalkBefore(order, d, e))
                      \o <<name>>

RECURSIVE SearchFrom(_, _, _)
SearchFrom(files, order, i) ==
    IF i > Len(binary_names) THEN <<>>
    ELSE LET r == SearchName(files, order, binary_names[i])
         IN  IF r # <<>> THEN r ELSE SearchFrom(files, order, i + 1)

find_verus_binary(files, order) == SearchFrom(files, order, 1)

----------------------------------------------------------------------------
(* make_executable, make_all_binaries_executable                           *)

\* os.chmod(file_path, st_mode | stat.S_IEXEC), skipped on Windows
make_executable(system, f) ==
    IF system # S_Windows THEN [f EXCEPT !.mode = @ \cup {"x"}] ELSE f

\* the filter "likely a binary file" on the suffix, the name and the parent
likely_binary(dirStr, p) ==
    \/ Suffix(Name(p)) = <<>>
    \/ Suffix(Name(p)) = S_exe
    \/ StartsWith(Name(p), S_rust_)
    \/ StartsWith(Name(p), S_verus)
    \/ Contains(Lower(PathStr(dirStr, Parent(p))), S_bin)

\* the test on the header read from the file, then on the file name
executable_like(p, f) ==
    \/ StartsWith(f.hdr, ELF)
    \/ \E m \in MachO : StartsWith(f.hdr, m)
    \/ StartsWith(f.hdr, MZ)
    \/ Name(p) \in {S_verus, S_rust_verify, S_z3}
    \/ StartsWith(Name(p), S_rust_)
    \/ StartsWith(Name(p), S_verus)

\* a file that cannot be opened raises IOError, which is skipped
make_all_binaries_executable(system, dirStr, files) ==
    IF system = S_Windows THEN files
    ELSE [p \in DOMAIN files |->
            IF /\ likely_binary(dirStr, p)
               /\ "r" \in files[p].mode
               /\ executable_like(p, files[p])
            THEN make_executable(system, files[p])
            ELSE files[p]]

----------------------------------------------------------------------------
(* setup_verus_installation                                                *)

\* the files below directory d, by their path relative to d
Under(files, d) == {p \in DOMAIN files : IsPrefix(d, p) /\ p # d}
Rel(d, p) == SubSeq(p, Len(d) + 1, Len(p))

\* the existing install directory is kept (a changed RemoveExisting)
KeepExisting(dir) == dir

\* if install_dir.exists(): shutil.rmtree(install_dir)
RemoveExisting(dir) == IF dir.exists THEN NoDir ELSE dir

\* shutil.copytree(binary_dir, install_dir): raises when the destination
\* exists; a source file that cannot be read is left out and the call raises
\* after the others are copied (with their modes)
copytree(files, d, dst) ==
    IF dst.exists THEN [ok |-> FALSE, dir |-> dst]
    ELSE LET src == Under(files, d)
             readable == {p \in src : "r" \in files[p].mode}
             rel == {Rel(d, p) : p \in readable}
         IN  [ok  |-> readable = src,
              dir |-> Dir([q \in rel |-> files[d \o q]])]

\* [ok, found, dir]: ok is FALSE when the function raises
setup_verus_installation(system, dirStr, extract, dst, order) ==
    LET verus_binary == find_verus_binary(extract.files, order)
        binary_dir == Parent(verus_binary)
        copied == copytree(extract.files, binary_dir, RemoveExisting(dst))
        normal == make_all_binaries_executable(system, dirStr, copied.dir.files)
        installed_binary == <<Name(verus_binary)>>
    IN  IF verus_binary = <<>>
        THEN [ok |-> FALSE, found |-> <<>>, dir |-> dst]
        ELSE IF ~copied.ok
        THEN [ok |-> FALSE, found |-> verus_binary, dir |-> copied.dir]
        ELSE [ok |-> TRUE, found |-> verus_binary,
              dir |-> Dir([p \in DOMAIN normal |->
                             IF p = installed_binary
                             THEN make_executable(system, normal[p])
                             ELSE normal[p]])]

----------------------------------------------------------------------------
(* The inputs of the function-level specifications.                        *)

MaxFiles == 2
MaxRuns == 2

S_lib == <<"l", "i", "b">>
S_libz3_so == <<"l", "i", "b", "z", "3", ".", "s", "o">>
S_old_txt == <<"o", "l", "d", ".", "t", "x", "t">>
S_Linux == <<"L", "i", "n", "u", "x">>
S_Darwin == <<"D", "a", "r", "w", "i", "n">>
TextHdr == <<35, 33, 47, 98>>

DirNames == {S_bin, S_lib, S_verus}

PathUniverse ==
    {<<S_verus>>, <<S_verus_exe>>, <<S_libz3_so>>,
     <<S_bin, S_verus>>, <<S_bin, S_verus_exe>>, <<S_bin, S_lib, S_verus>>,
     <<S_lib, S_verus>>, <<S_lib, S_libz3_so>>, <<S_verus, S_z3>>}

\* no path is both a file and a directory
TreeDomains ==
    {S \in SUBSET PathUniverse :
        /\ Cardinality(S) <= MaxFiles
        /\ \A p, q \in S : IsPrefix(p, q) => p = q}

FileKinds ==
    {[hdr |-> ELF, mode |-> {"r"}], [hdr |-> ELF, mode |-> {}],
     [hdr |-> TextHdr, mode |-> {"r"}]}

PriorInstalls ==
    {NoDir,
     Dir((<<S_old_txt>> :> [hdr |-> TextHdr, mode |-> {"r"}])),
     Dir((<<S_verus>> :> [hdr |-> TextHdr, mode |-> {"r"}]) @@
         (<<S_lib, S_z3>> :> [hdr |-> ELF, mode |-> {"r", "x"}]))}

InstallDirs == {<<"/", "v">>, <<"/", "B", "i", "n">>}

Perms(S) ==
    {f \in [1..Cardinality(S) -> S] : \A i, j \in 1..Cardinality(S) : f[i] = f[j] => i = j}

NoArgs ==
    [platform |-> <<>>, pre_release |-> FALSE, list_assets |-> FALSE,
     no_extract |-> FALSE, no_path |-> FALSE]

----------------------------------------------------------------------------
(* SpecInstall: setup_verus_installation called MaxRuns times on the same  *)
(* extracted tree and install directory.                                   *)

InitInstall ==
    /\ pc = "call"
    /\ \E S \in TreeDomains : \E t \in [S -> FileKinds] : temp_extract_dir = Dir(t)
    /\ install \in PriorInstalls
    /\ install_dir \in InstallDirs
    /\ scanOrder \in Perms(DirNames)
    /\ \E sy \in {S_Linux, S_Windows} :
          host = [system |-> sy, machine |-> S_x86_64, shell |-> <<>>]
    /\ args = NoArgs /\ assets = <<>> /\ asset = <<>> /\ choice = <<>>
    /\ exitStatus = -1 /\ stages = <<>> /\ archive = <<>> /\ home = <<>>
    /\ found = <<>> /\ verified = "none" /\ runs = 0 /\ snap = <<install>> /\ ok = TRUE
    /\ message = ""

CallSetup ==
    /\ pc = "call"
    /\ runs < MaxRuns
    /\ LET r == setup_verus_installation(host.system, install_dir,
                                         temp_extract_dir, install, scanOrder)
       IN  /\ install' = r.dir
           /\ found' = r.found
           /\ ok' = r.ok
           /\ snap' = Append(snap, r.dir)
    /\ runs' = runs + 1
    /\ UNCHANGED <<pc, args, host, assets, asset, choice, exitStatus, stages,
                   archive, temp_extract_dir, install_dir, scanOrder, home, verified,
                   message>>

NextInstall == CallSetup

SpecInstall == InitInstall /\ [][NextInstall]_vars

\* C1: when the extracted tree has a verus binary (and the files of its
\* directory can be read), setup_verus_installation returns normally and the
\* install directory then holds exactly the files of the directory of the
\* discovered binary, with their content, whatever it held before; a second
\* call leaves the same files with the same permissions.
InstallReplacesAndIsIdempotent ==
    LET files == temp_extract_dir.files
        b == find_verus_binary(files, scanOrder)
        src == Under(files, Parent(b))
    IN  (pc = "call" /\ runs >= 1 /\ b # <<>> /\ \A p \in src : "r" \in files[p].mode)
        => /\ ok
           /\ found = b
           /\ install.exists
           /\ DOMAIN install.files = {Rel(Parent(b), p) : p \in src}
           /\ \A p \in src : install.files[Rel(Parent(b), p)].hdr = files[p].hdr
           /\ runs >= 2 => install = snap[2]

\* a second install over a previous content of which nothing is left, the
\* binary found in a subdirectory
InstallReplacesWitness ==
    /\ pc = "call" /\ runs = 2 /\ ok
    /\ Len(found) = 2
    /\ snap[1].exists /\ <<S_old_txt>> \in DOMAIN snap[1].files
    /\ <<S_old_txt>> \notin DOMAIN install.files
    /\ install = snap[2]
    /\ Cardinality(DOMAIN install.files) = 1
    /\ Cardinality(DOMAIN temp_extract_dir.files) = 2

\* C10: find_verus_binary returns (a) extract_dir/verus, else (b)
\* extract_dir/verus.exe, and only when neither exists (c) a hit of the walk
\* for either name; None only when no file of either name is in the tree.
FindChecksRootBeforeWalk ==
    LET files == temp_extract_dir.files
        hits == {p \in DOMAIN files : Name(p) \in {S_verus, S_verus_exe}}
    IN  (pc = "call" /\ runs >= 1)
        => IF Exists(files, <<S_verus>>) THEN found = <<S_verus>>
           ELSE IF Exists(files, <<S_verus_exe>>) THEN found = <<S_verus_exe>>
           ELSE IF hits = {} THEN found = <<>>
           ELSE found \in hits

----------------------------------------------------------------------------
(* SpecPerm: make_all_binaries_executable called on a directory.           *)

InitPerm ==
    /\ pc = "perm"
    /\ \E S \in TreeDomains : \E t \in [S -> FileKinds] : install = Dir(t)
    /\ install_dir \in InstallDirs
    /\ \E sy \in {S_Linux, S_Darwin, S_Windows} :
          host = [system |-> sy, machine |-> S_x86_64, shell |-> <<>>]
    /\ temp_extract_dir = NoDir /\ scanOrder = <<>>
    /\ args = NoArgs /\ assets = <<>> /\ asset = <<>> /\ choice = <<>>
    /\ exitStatus = -1 /\ stages = <<>> /\ archive = <<>> /\ home = <<>>
    /\ found = <<>> /\ verified = "none" /\ runs = 0 /\ snap = <<install>> /\ ok = TRUE
    /\ message = ""

CallMakeAllBinariesExecutable ==
    /\ pc = "perm"
    /\ runs < MaxRuns
    /\ install' = Dir(make_all_binaries_executable(host.system, install_dir, install.files))
    /\ snap' = Append(snap, install')
    /\ runs' = runs + 1
    /\ UNCHANGED <<pc, args, host, assets, asset, choice, exitStatus, stages, archive,
                   temp_extract_dir, install_dir, scanOrder, found, home, verified, ok,
                   message>>

NextPerm == CallMakeAllBinariesExecutable

SpecPerm == InitPerm /\ [][NextPerm]_vars

\* C4: on a platform with an execute bit, after make_all_binaries_executable
\* every readable file of the directory that starts with the ELF magic has
\* the owner-execute bit, whatever its name, suffix and directory.
ElfFilesBecomeExecutable ==
    (pc = "perm" /\ runs >= 1 /\ host.system # S_Windows)
    => \A p \in DOMAIN install.files :
          ("r" \in install.files[p].mode /\ StartsWith(install.files[p].hdr, ELF))
          => "x" \in install.files[p].mode

----------------------------------------------------------------------------
(* get_shell_config_file, update_path_in_shell_config,                     *)
(* create_windows_batch_script, setup_path_configuration                   *)

S_block_head ==
    <<"\n", "#", " ", "V", "e", "r", "u", "s", " ", "i", "n", "s",
      "t", "a", "l", "l", "a", "t", "i", "o", "n", "\n">>
S_export ==
    <<"e", "x", "p", "o", "r", "t", " ", "P", "A", "T", "H", "=",
      "\"">>
S_export_tail ==
    <<":", "$", "P", "A", "T", "H", "\"", " ", " ", "#", " ", "A",
      "d", "d", "e", "d", " ", "b", "y", " ", "V", "e", "r", "u",
      "s", " ", "i", "n", "s", "t", "a", "l", "l", "e", "r">>
S_bat_head ==
    <<"@", "e", "c", "h", "o", " ", "o", "f", "f", "\n", "e", "c",
      "h", "o", " ", "A", "d", "d", "i", "n", "g", " ", "V", "e",
      "r", "u", "s", " ", "t", "o", " ", "P", "A", "T", "H", ".",
      ".", ".", "\n", "s", "e", "t", "x", " ", "P", "A", "T", "H",
      " ", "\"", "%", "P", "A", "T", "H", "%", ";">>
S_bat_tail ==
    <<"\"", "\n", "e", "c", "h", "o", " ", "V", "e", "r", "u", "s",
      " ", "h", "a", "s", " ", "b", "e", "e", "n", " ", "a", "d",
      "d", "e", "d", " ", "t", "o", " ", "y", "o", "u", "r", " ",
      "P", "A", "T", "H", ".", "\n", "e", "c", "h", "o", " ", "P",
      "l", "e", "a", "s", "e", " ", "r", "e", "s", "t", "a", "r",
      "t", " ", "y", "o", "u", "r", " ", "c", "o", "m", "m", "a",
      "n", "d", " ", "p", "r", "o", "m", "p", "t", " ", "o", "r",
      " ", "P", "o", "w", "e", "r", "S", "h", "e", "l", "l", " ",
      "f", "o", "r", " ", "c", "h", "a", "n", "g", "e", "s", " ",
      "t", "o", " ", "t", "a", "k", "e", " ", "e", "f", "f", "e",
      "c", "t", ".", "\n", "p", "a", "u", "s", "e", "\n">>

NoFile == [exists |-> FALSE, content |-> <<>>]
File(content) == [exists |-> TRUE, content |-> content]

\* the candidate files of the home directory, and the helper script that
\* create_windows_batch_script writes beside the install directory
ConfigNames == {".zshrc", ".zprofile", ".bashrc", ".bash_profile", ".profile"}
BatchName == "add_verus_to_path.bat"

RECURSIVE FirstExisting(_, _)
FirstExisting(files, names) ==
    IF names = <<>> THEN ".bashrc"
    ELSE IF files[Head(names)].exists THEN Head(names)
    ELSE FirstExisting(files, Tail(names))

get_shell_config_file(shell, files) ==
    LET config_files ==
            IF Contains(Lower(shell), S_zsh) THEN <<".zshrc", ".zprofile">>
            ELSE IF Contains(Lower(shell), S_bash)
            THEN <<".bashrc", ".bash_profile", ".profile">>
            ELSE <<".zshrc", ".bashrc", ".bash_profile", ".profile">>
    IN  FirstExisting(files, config_files)

path_line(dirStr) == S_export \o dirStr \o S_export_tail

\* the check is dropped (a changed already_configured)
never_configured(f, dirStr) == FALSE

\* config_file.exists() and str(install_dir) in config_file.read_text()
already_configured(f, dirStr) == f.exists /\ Contains(f.content, dirStr)

\* [file, files]: the config file returned and the files afterwards;
\* open(config_file, 'a') creates the file when it is missing
update_path_in_shell_config(dirStr, shell, files) ==
    LET config_file == get_shell_config_file(shell, files)
    IN  IF already_configured(files[config_file], dirStr)
        THEN [file |-> config_file, files |-> files]
        ELSE [file  |-> config_file,
              files |-> [files EXCEPT ![config_file] =
                           File(@.content \o S_block_head \o path_line(dirStr) \o <<"\n">>)]]

\* open(batch_file, 'w') overwrites the helper script
create_windows_batch_script(dirStr, files) ==
    [file  |-> BatchName,
     files |-> [files EXCEPT ![BatchName] = File(S_bat_head \o dirStr \o S_bat_tail)]]

setup_path_configuration(system, dirStr, shell, files) ==
    IF system = S_Windows THEN create_windows_batch_script(dirStr, files)
    ELSE update_path_in_shell_config(dirStr, shell, files)

----------------------------------------------------------------------------
(* SpecPath: update_path_in_shell_config called MaxRuns times with the     *)
(* same install directory.                                                 *)

S_bin_zsh ==
    <<"/", "b", "i", "n", "/", "z", "s", "h">>
S_usr_bin_BASH ==
    <<"/", "u", "s", "r", "/", "b", "i", "n", "/", "B", "A", "S",
      "H">>
S_bin_sh ==
    <<"/", "b", "i", "n", "/", "s", "h">>

Shells == {<<>>, S_bin_zsh, S_usr_bin_BASH, S_bin_sh}

\* contents a config file starts with: empty, a comment without a final
\* newline, a line that names /v
InitialContents == {<<>>, <<"#", " ", "r", "c">>, <<"c", "d", " ", "/", "v", "\n">>}

InitPath ==
    /\ pc = "path"
    /\ \E f \in [ConfigNames -> {NoFile} \cup {File(c) : c \in InitialContents}] :
          home = f @@ (BatchName :> NoFile)
    /\ install_dir \in InstallDirs
    /\ \E sh \in Shells : host = [system |-> S_Linux, machine |-> S_x86_64, shell |-> sh]
    /\ temp_extract_dir = NoDir /\ install = NoDir /\ scanOrder = <<>>
    /\ args = NoArgs /\ assets = <<>> /\ asset = <<>> /\ choice = <<>>
    /\ exitStatus = -1 /\ stages = <<>> /\ archive = <<>>
    /\ found = <<>> /\ verified = "none" /\ runs = 0
    /\ snap = <<[file |-> "", files |-> home]>> /\ ok = TRUE
    /\ message = ""

CallUpdatePath ==
    /\ pc = "path"
    /\ runs < MaxRuns
    /\ LET r == update_path_in_shell_config(install_dir, host.shell, home)
       IN  /\ home' = r.files
           /\ snap' = Append(snap, r)
    /\ runs' = runs + 1
    /\ UNCHANGED <<pc, args, host, assets, asset, choice, exitStatus, stages, archive,
                   temp_extract_dir, install, install_dir, scanOrder, found, verified, ok,
                   message>>

NextPath == CallUpdatePath

SpecPath == InitPath /\ [][NextPath]_vars

\* number of places where sub occurs in s
CountOcc(s, sub) ==
    Cardinality({i \in 0..(Len(s) - Len(sub)) : SubSeq(s, i + 1, i + Len(sub)) = sub})

\* C2: when the calls resolve to the same config file and that file did not
\* contain the install path at first, the file afterwards is its first
\* content followed by the two-line block, the export line is in it exactly
\* once, and every call after the first leaves the files unchanged.
PathConfiguredExactlyOnce ==
    LET f == snap[2].file
        first == snap[1].files[f]
    IN  (/\ pc = "path" /\ runs >= 1
         /\ \A i \in 2..Len(snap) : snap[i].file = f
         /\ ~Contains(first.content, install_dir))
        => /\ home[f].exists
           /\ home[f].content =
                 first.content \o S_block_head \o path_line(install_dir) \o <<"\n">>
           /\ CountOcc(home[f].content, path_line(install_dir)) = 1
           /\ \A i \in 2..Len(snap) : snap[i].files = snap[2].files

\* two calls on an existing config file that did not name the install path
PathConfiguredWitness ==
    /\ pc = "path" /\ runs = 2
    /\ snap[1].files[snap[2].file].exists
    /\ ~Contains(snap[1].files[snap[2].file].content, install_dir)
    /\ snap[3].file = snap[2].file
    /\ home # snap[1].files
    /\ home = snap[2].files
    /\ CountOcc(home[snap[2].file].content, path_line(install_dir)) = 1

----------------------------------------------------------------------------
(* get_platform_asset_pattern, find_asset_for_platform, extract_archive,   *)
(* verify_installation and the parsing of the interactive choice           *)

patterns ==
    (S_linux :> ((S_x86_64 :> S_x86_linux) @@ (S_amd64 :> S_x86_linux))) @@
    (S_darwin :> ((S_x86_64 :> S_x86_macos) @@ (S_amd64 :> S_x86_macos) @@
                  (S_arm64 :> S_arm64_macos))) @@
    (S_windows :> ((S_x86_64 :> S_x86_win) @@ (S_amd64 :> S_x86_win)))

\* <<>> is None
get_platform_asset_pattern(system, machine) ==
    IF /\ Lower(system) \in DOMAIN patterns
       /\ Lower(machine) \in DOMAIN patterns[Lower(system)]
    THEN patterns[Lower(system)][Lower(machine)]
    ELSE <<>>

\* the first asset whose lowered name contains the pattern as given; <<>> is None
RECURSIVE find_asset_for_platform(_, _)
find_asset_for_platform(as, platform_pattern) ==
    IF platform_pattern = <<>> \/ as = <<>> THEN <<>>
    ELSE IF Contains(Lower(Head(as)), platform_pattern) THEN Head(as)
    ELSE find_asset_for_platform(Tail(as), platform_pattern)

\* args.platform or get_platform_asset_pattern()
platform_pattern_of(a, h) ==
    IF a.platform # <<>> THEN a.platform
    ELSE get_platform_asset_pattern(h.system, h.machine)

\* the dispatch of extract_archive, and the same test in main
is_zip(name) == Lower(Suffix(name)) = S_zip
is_targz(name) == EndsWith(name, S_tar_gz) \/ EndsWith(name, S_tgz)

\* extract_archive: [ok, dir]; an unsupported suffix raises before anything
\* is written, and so does an archive that the zip or tar reader rejects
extract_archive(name, packed, dir) ==
    IF ~(is_zip(name) \/ is_targz(name)) THEN [ok |-> FALSE, dir |-> dir]
    ELSE IF ~packed.valid THEN [ok |-> FALSE, dir |-> dir]
    ELSE [ok |-> TRUE, dir |-> Dir(packed.files)]

\* what running [verus_binary, '--version'] can do
VerifyOutcomes == {"zero", "nonzero", "timeout", "launch_failure"}

\* the timeout and the launch failure propagate (a changed verify_installation)
verify_installation_uncaught(outcome) ==
    [raised |-> outcome \in {"timeout", "launch_failure"}, value |-> outcome = "zero"]

\* verify_installation catches every exception and returns False
verify_installation(outcome) == [raised |-> FALSE, value |-> outcome = "zero"]

digit ==
    ("0" :> 0) @@ ("1" :> 1) @@ ("2" :> 2) @@ ("3" :> 3) @@ ("4" :> 4) @@
    ("5" :> 5) @@ ("6" :> 6) @@ ("7" :> 7) @@ ("8" :> 8) @@ ("9" :> 9)

RECURSIVE Strip(_)
Strip(s) ==
    IF s = <<>> THEN s
    ELSE IF Head(s) = " " THEN Strip(Tail(s))
    ELSE IF s[Len(s)] = " " THEN Strip(SubSeq(s, 1, Len(s) - 1))
    ELSE s

RECURSIVE Digits(_)
Digits(s) == IF s = <<>> THEN 0 ELSE 10 * Digits(SubSeq(s, 1, Len(s) - 1)) + digit[s[Len(s)]]

\* int(choice): [ok, val]; ok is FALSE for ValueError
int(s) ==
    LET t == Strip(s)
        signed == t # <<>> /\ Head(t) \in {"+", "-"}
        d == IF signed THEN Tail(t) ELSE t
    IN  IF d # <<>> /\ \A i \in 1..Len(d) : d[i] \in DOMAIN digit
        THEN [ok |-> TRUE, val |-> IF signed /\ Head(t) = "-" THEN 0 - Digits(d) ELSE Digits(d)]
        ELSE [ok |-> FALSE, val |-> 0]

\* assets[i] of Python: [ok, val]; ok is FALSE for IndexError
index(as, i) ==
    IF 0 <= i /\ i < Len(as) THEN [ok |-> TRUE, val |-> as[i + 1]]
    ELSE IF 0 - Len(as) <= i /\ i < 0 THEN [ok |-> TRUE, val |-> as[Len(as) + i + 1]]
    ELSE [ok |-> FALSE, val |-> <<>>]

\* the statements of the try block of main after the archive test, in order
main_steps_path_first == <<"extract", "install", "path", "verify", "cleanup">>

main_steps == <<"extract", "install", "verify", "path", "cleanup">>

step_after(s) == main_steps[(CHOOSE i \in 1..Len(main_steps) : main_steps[i] = s) + 1]

----------------------------------------------------------------------------
(* Spec: one run of main.                                                  *)

MaxAssets == 2

S_AMD64 ==
    <<"A", "M", "D", "6", "4">>
S_FreeBSD ==
    <<"F", "r", "e", "e", "B", "S", "D">>
S_linux_zip ==
    <<"v", "e", "r", "u", "s", "-", "x", "8", "6", "-", "l", "i",
      "n", "u", "x", ".", "z", "i", "p">>
S_Linux_tar_gz ==
    <<"V", "e", "r", "u", "s", "-", "X", "8", "6", "-", "L", "i",
      "n", "u", "x", ".", "t", "a", "r", ".", "g", "z">>
S_linux_rar ==
    <<"v", "e", "r", "u", "s", "-", "x", "8", "6", "-", "l", "i",
      "n", "u", "x", ".", "r", "a", "r">>
S_win_zip ==
    <<"v", "e", "r", "u", "s", "-", "x", "8", "6", "-", "w", "i",
      "n", ".", "z", "i", "p">>
S_X86_Linux ==
    <<"X", "8", "6", "-", "L", "i", "n", "u", "x">>

AssetNames == {S_linux_zip, S_Linux_tar_gz, S_linux_rar, S_win_zip}

AssetLists == UNION {[1..n -> AssetNames] : n \in 0..MaxAssets}

\* --platform: not given, the tag in lower case, the tag in mixed case
Platforms == {<<>>, S_x86_linux, S_X86_Linux}

Hosts ==
    {[system |-> S_Linux, machine |-> S_x86_64, shell |-> S_usr_bin_BASH],
     [system |-> S_Darwin, machine |-> S_arm64, shell |-> S_bin_zsh],
     [system |-> S_Windows, machine |-> S_AMD64, shell |-> <<>>],
     [system |-> S_FreeBSD, machine |-> S_amd64, shell |-> S_bin_sh]}

Choices == {<<"0">>, <<"1">>, <<" ", "2">>, <<"-", "1">>, <<"-", "3">>, <<"x">>, <<>>}

NoArchive == [exists |-> FALSE, valid |-> FALSE, files |-> <<>>]

\* what the downloaded file can hold: the binary at the root with a library,
\* no binary, the binary in a subdirectory, a binary that cannot be read, or
\* bytes that are no archive
Archives ==
    {[exists |-> TRUE, valid |-> TRUE, files |-> t] : t \in
        {(<<S_verus>> :> [hdr |-> ELF, mode |-> {"r"}]) @@
             (<<S_libz3_so>> :> [hdr |-> ELF, mode |-> {"r"}]),
         (<<S_libz3_so>> :> [hdr |-> ELF, mode |-> {"r"}]),
         (<<S_bin, S_verus>> :> [hdr |-> ELF, mode |-> {"r"}]) @@
             (<<S_verus_exe>> :> [hdr |-> MZ, mode |-> {"r"}]),
         (<<S_verus>> :> [hdr |-> ELF, mode |-> {}])}}
    \cup {[exists |-> TRUE, valid |-> FALSE, files |-> <<>>]}

NoHome == [n \in ConfigNames \cup {BatchName} |-> NoFile]

\* the disk before the run: clean, or as an earlier run left it
Disks ==
    {[install |-> NoDir, temp |-> NoDir, home |-> NoHome],
     [install |-> Dir((<<S_old_txt>> :> [hdr |-> TextHdr, mode |-> {"r"}])),
      temp    |-> Dir((<<S_old_txt>> :> [hdr |-> TextHdr, mode |-> {"r"}])),
      home    |-> [NoHome EXCEPT ![".bashrc"] = File(<<"#", " ", "r", "c">>)]]}

Init ==
    /\ pc = "fetch"
    /\ args \in [platform : Platforms, pre_release : BOOLEAN, list_assets : BOOLEAN,
                 no_extract : BOOLEAN, no_path : BOOLEAN]
    /\ host \in Hosts
    /\ \E d \in Disks : install = d.install /\ temp_extract_dir = d.temp /\ home = d.home
    /\ install_dir \in InstallDirs
    /\ scanOrder = <<S_bin, S_lib, S_verus>>
    /\ assets = <<>> /\ asset = <<>> /\ choice = <<>>
    /\ exitStatus = -1 /\ stages = <<>> /\ archive = NoArchive
    /\ found = <<>> /\ verified = "none" /\ runs = 0 /\ snap = <<>> /\ ok = TRUE
    /\ message = ""

\* return from main (status 0) or sys.exit(1)
Exit(status, msg) == pc' = "done" /\ exitStatus' = status /\ message' = msg

\* get_latest_release and the prints of the release fields
FetchRelease ==
    /\ pc = "fetch"
    /\ stages' = Append(stages, "release")
    /\ \/ Exit(1, "Network error") /\ UNCHANGED assets
       \/ Exit(1, "Unexpected API response format") /\ UNCHANGED assets
       \/ args.pre_release /\ Exit(1, "Error") /\ UNCHANGED assets
       \/ \E a \in AssetLists :
             /\ assets' = a
             /\ pc' = "list"
             /\ UNCHANGED <<exitStatus, message>>
    /\ UNCHANGED <<args, host, asset, choice, archive, temp_extract_dir, install,
                   install_dir, scanOrder, found, home, verified, runs, snap, ok>>

\* --list-assets, and the release without assets
ListAssets ==
    /\ pc = "list"
    /\ IF args.list_assets THEN Exit(0, "Available assets")
       ELSE IF assets = <<>> THEN Exit(0, "No assets found in this release")
       ELSE pc' = "select" /\ UNCHANGED <<exitStatus, message>>
    /\ UNCHANGED <<args, host, assets, asset, choice, stages, archive, temp_extract_dir,
                   install, install_dir, scanOrder, found, home, verified, runs, snap, ok>>

\* the choice of the asset: by the platform pattern, the only asset, or the
\* answer to the prompt
SelectAsset ==
    /\ pc = "select"
    /\ stages' = Append(stages, "select")
    /\ LET platform_pattern == platform_pattern_of(args, host)
       IN  IF platform_pattern # <<>>
           THEN LET a == find_asset_for_platform(assets, platform_pattern)
                IN  /\ IF a = <<>>
                       THEN Exit(0, "No asset found for platform pattern") /\ UNCHANGED asset
                       ELSE /\ asset' = a
                            /\ pc' = "download"
                            /\ UNCHANGED <<exitStatus, message>>
                    /\ UNCHANGED choice
           ELSE IF Len(assets) = 1
           THEN /\ asset' = assets[1]
                /\ pc' = "download"
                /\ UNCHANGED <<choice, exitStatus, message>>
           ELSE \E c \in Choices :
                   /\ choice' = c
                   /\ LET n == int(c)
                          r == IF n.ok THEN index(assets, n.val)
                               ELSE [ok |-> FALSE, val |-> <<>>]
                      IN  IF r.ok
                          THEN /\ asset' = r.val
                               /\ pc' = "download"
                               /\ UNCHANGED <<exitStatus, message>>
                          ELSE Exit(0, "Invalid choice") /\ UNCHANGED asset
    /\ UNCHANGED <<args, host, assets, archive, temp_extract_dir, install, install_dir,
                   scanOrder, found, home, verified, runs, snap, ok>>

\* download_file into <output-dir>/<asset name>
Download ==
    /\ pc = "download"
    /\ stages' = Append(stages, "download")
    /\ \/ Exit(1, "Network error") /\ UNCHANGED archive
       \/ Exit(1, "Unexpected API response format") /\ UNCHANGED archive
       \/ \E packed \in Archives :
             /\ archive' = packed
             /\ pc' = "post"
             /\ UNCHANGED <<exitStatus, message>>
    /\ UNCHANGED <<args, host, assets, asset, choice, temp_extract_dir, install,
                   install_dir, scanOrder, found, home, verified, runs, snap, ok>>

\* --no-extract, and the test of the file name before the try block
AfterDownload ==
    /\ pc = "post"
    /\ IF args.no_extract THEN Exit(0, "To manually extract and install")
       ELSE IF is_zip(asset) \/ is_targz(asset)
       THEN pc' = main_steps[1] /\ UNCHANGED <<exitStatus, message>>
       ELSE Exit(0, "Downloaded file is not an archive")
    /\ UNCHANGED <<args, host, assets, asset, choice, stages, archive, temp_extract_dir,
                   install, install_dir, scanOrder, found, home, verified, runs, snap, ok>>

\* rmtree of an old temp_extract, then extract_archive
Extract ==
    /\ pc = "extract"
    /\ stages' = Append(stages, "extract")
    /\ LET r == extract_archive(asset, archive, RemoveExisting(temp_extract_dir))
       IN  /\ temp_extract_dir' = r.dir
           /\ IF r.ok THEN pc' = step_after("extract") /\ UNCHANGED <<exitStatus, message>>
              ELSE Exit(1, "Error during extraction/installation")
    /\ UNCHANGED <<args, host, assets, asset, choice, archive, install, install_dir,
                   scanOrder, found, home, verified, runs, snap, ok>>

\* setup_verus_installation(temp_extract_dir, args.install_dir)
Install ==
    /\ pc = "install"
    /\ stages' = Append(stages, "install")
    /\ LET r == setup_verus_installation(host.system, install_dir, temp_extract_dir,
                                         install, scanOrder)
       IN  /\ install' = r.dir
           /\ found' = r.found
           /\ ok' = r.ok
           /\ snap' = <<r.dir>>
           /\ IF r.ok THEN pc' = step_after("install") /\ UNCHANGED <<exitStatus, message>>
              ELSE Exit(1, "Error during extraction/installation")
    /\ UNCHANGED <<args, host, assets, asset, choice, archive, temp_extract_dir,
                   install_dir, scanOrder, home, verified, runs>>

\* if verify_installation(verus_binary): print(...)
Verify ==
    /\ pc = "verify"
    /\ stages' = Append(stages, "verify")
    /\ \E o \in VerifyOutcomes :
          /\ verified' = o
          /\ IF verify_installation(o).raised
             THEN Exit(1, "Error during extraction/installation")
             ELSE pc' = step_after("verify") /\ UNCHANGED <<exitStatus, message>>
    /\ UNCHANGED <<args, host, assets, asset, choice, archive, temp_extract_dir, install,
                   install_dir, scanOrder, found, home, runs, snap, ok>>

\* if not args.no_path: setup_path_configuration(install_dir)
ConfigurePath ==
    /\ pc = "path"
    /\ IF args.no_path THEN UNCHANGED <<stages, home>>
       ELSE /\ stages' = Append(stages, "path")
            /\ home' = setup_path_configuration(host.system, install_dir,
                                                host.shell, home).files
    /\ pc' = step_after("path")
    /\ UNCHANGED <<args, host, assets, asset, choice, exitStatus, archive,
                   temp_extract_dir, install, install_dir, scanOrder, found, verified,
                   runs, snap, ok, message>>

\* shutil.rmtree(temp_extract_dir), then the prompt to remove the archive
Cleanup ==
    /\ pc = "cleanup"
    /\ temp_extract_dir' = NoDir
    /\ \E answer \in {<<"y">>, <<"Y">>, <<"n">>, <<>>} :
          archive' = IF Lower(answer) = <<"y">> THEN NoArchive ELSE archive
    /\ Exit(0, "")
    /\ UNCHANGED <<args, host, assets, asset, choice, stages, install, install_dir,
                   scanOrder, found, home, verified, runs, snap, ok>>

Next ==
    \/ FetchRelease
    \/ ListAssets
    \/ SelectAsset
    \/ Download
    \/ AfterDownload
    \/ Extract
    \/ Install
    \/ Verify
    \/ ConfigurePath
    \/ Cleanup

Spec == Init /\ [][Next]_vars

----------------------------------------------------------------------------
(* Properties of a run of main.                                            *)

Ran(stage) == \E i \in 1..Len(stages) : stages[i] = stage

\* C3: with a platform tag, the selected asset is the first one of the list
\* whose name contains the tag when the case of both is ignored, and no
\* asset is selected only when no name contains it.
FirstAssetMatchingWithoutCase ==
    LET tag == platform_pattern_of(args, host)
        matching == {i \in 1..Len(assets) : Contains(Lower(assets[i]), Lower(tag))}
    IN  (Ran("select") /\ tag # <<>>)
        => IF matching = {} THEN asset = <<>>
           ELSE asset = assets[CHOOSE i \in matching : \A j \in matching : i <= j]

\* C5: a run that ends on a network failure, a missing field of the API
\* response, a downloaded file that is no supported archive (extraction not
\* disabled) or a missing verus binary exits with a non-zero status.
FatalPathsExitNonZero ==
    pc = "done"
    => /\ message \in {"Network error", "Unexpected API response format"}
            => exitStatus # 0
       /\ (archive.exists /\ ~args.no_extract /\ ~(is_zip(asset) \/ is_targz(asset)))
            => exitStatus # 0
       /\ (Ran("install") /\ found = <<>>) => exitStatus # 0

DocumentedOrder ==
    <<"release", "select", "download", "extract", "install", "path", "verify">>

CodeOrder ==
    <<"release", "select", "download", "extract", "install", "verify", "path">>

Rank(order, stage) == CHOOSE i \in 1..Len(order) : order[i] = stage

\* C6 as stated: the stages run in the order release client, asset selector,
\* downloader, extractor, installation builder, path configurator, verifier,
\* none of them twice.
StagesInDocumentedOrder ==
    \A i, j \in 1..Len(stages) :
        i < j => Rank(DocumentedOrder, stages[i]) < Rank(DocumentedOrder, stages[j])

\* C6 as amended: the stages run in the order release client, asset selector,
\* downloader, extractor, installation builder, verifier, path configurator;
\* a stage starts only when every stage ahead of it has run, and none runs
\* twice, so the path configurator runs only after the verifier.
StagesInCodeOrder == stages = SubSeq(CodeOrder, 1, Len(stages))

\* a run that went through all seven stages
AllStagesWitness == pc = "done" /\ Len(stages) = Len(CodeOrder) /\ exitStatus = 0

\* C7: when main has exited after extracting an archive, temp_extract is gone.
TempExtractRemovedAtExit ==
    (pc = "done" /\ Ran("install")) => ~temp_extract_dir.exists

\* C8: a run that ends on a release without assets or without a matching
\* asset exits with status zero; one that ends on an invalid interactive
\* choice exits with a non-zero status.
SelectionExitStatuses ==
    pc = "done"
    => /\ message \in {"No assets found in this release",
                       "No asset found for platform pattern"} => exitStatus = 0
       /\ message = "Invalid choice" => exitStatus # 0

\* C9: once verify_installation has returned false the install directory
\* stays as setup_verus_installation left it, and the run goes on to the
\* PATH configuration (unless --no-path) and the removal of temp_extract and
\* ends with status zero.
VerificationFailureIsNotFatal ==
    (Ran("verify") /\ verified # "zero")
    => /\ install = snap[1]
       /\ pc # "done" => exitStatus = -1
       /\ pc = "done"
            => /\ exitStatus = 0
               /\ ~temp_extract_dir.exists
               /\ ~args.no_path => Ran("path")
               /\ (~args.no_path /\ host.system # S_Windows)
                    => \E n \in ConfigNames :
                          home[n].exists /\ Contains(home[n].content, install_dir)

\* a run that ended after the version check had timed out
VerificationFailureWitness ==
    /\ pc = "done" /\ verified = "timeout" /\ exitStatus = 0
    /\ Ran("path") /\ install.exists /\ ~temp_extract_dir.exists

\* C11: without a platform tag and with more than one asset, the answer to
\* the prompt selects an asset only when it is an integer i with
\* 0 <= i < len(assets), and then assets[i]; after any other answer (no
\* integer, or an integer outside that range, the negative ones included)
\* the run ends on "Invalid choice" with nothing selected or downloaded; the
\* prompt is made once.
OnlyIndexInRangeSelects ==
    LET n == int(choice)
    IN  (Ran("select") /\ platform_pattern_of(args, host) = <<>> /\ Len(assets) > 1)
        => /\ Cardinality({i \in 1..Len(stages) : stages[i] = "select"}) = 1
           /\ IF n.ok /\ 0 <= n.val /\ n.val < Len(assets)
              THEN asset = assets[n.val + 1]
              ELSE /\ asset = <<>>
                   /\ pc = "done"
                   /\ message = "Invalid choice"
                   /\ ~Ran("download")
                   /\ ~archive.exists
                   /\ ~Ran("install")

====
